---- MODULE Spec2Model ----
(***************************************************************************)
(* octopat: the `create` flow of src/main.rs (authorization URL, browser   *)
(* launch, loopback callback server, token exchange, clipboard, completion *)
(* signal) and the Scope catalog with its serde wire names.                *)
(*                                                                         *)
(* Rust strings whose characters matter (wire names, the authorization     *)
(* URL) are sequences of one-character strings, so that formatting,        *)
(* quoting, `replace` and `join` are computed as the code computes them.   *)
(***************************************************************************)
EXTENDS Integers, Sequences, FiniteSets, TLC

(* ------------------------------ bounds --------------------------------- *)

\* Requests the loopback listener receives in one run.
MaxRequests == 2

\* Length of the query strings query_params is applied to.
MaxQueryLen == 4

\* Length of the scope sequences the URL builder is applied to on its own.
MaxScopes == 2

\* The MultiSelect items (by index in the catalog) the user may tick in a
\* run of the whole flow.
MaxChecked == 1

(* --------------------------- Scope catalog ----------------------------- *)

\* enum Scope, in declaration order (Scope::into_enum_iter()).
Catalog ==
    <<"Repo", "RepoStatus", "RepoDeployment", "PublicRepo",
      "RepoInvite", "SecurityEvents", "AdminRepoHook", "WriteRepoHook",
      "ReadRepoHook", "AdminOrg", "WriteOrg", "ReadOrg",
      "AdminPublicKey", "WritePublicKey", "ReadPublicKey", "AdminOrgHook",
      "Gist", "Notifications", "User", "UserEmail",
      "ReadUser", "UserFollow", "DeleteRepo", "WriteDiscussion",
      "ReadDiscussion", "WritePackages", "ReadPackages", "DeletePackages",
      "AdminGpgKey", "WriteGpgKey", "ReadGpgKey", "Workflow">>

Scopes == {Catalog[i] : i \in 1..Len(Catalog)}

\* The #[serde(rename = "...")] attribute of each variant.
RenameAttr(s) ==
    CASE s = "Repo" -> <<"r","e","p","o">>
      [] s = "RepoStatus" -> <<"r","e","p","o",":","s","t","a","t","u","s">>
      [] s = "RepoDeployment" -> <<"r","e","p","o","_","d","e","p","l","o","y","m","e","n","t">>
      [] s = "PublicRepo" -> <<"p","u","b","l","i","c","_","r","e","p","o">>
      [] s = "RepoInvite" -> <<"r","e","p","o",":","i","n","v","i","t","e">>
      [] s = "SecurityEvents" -> <<"s","e","c","u","r","i","t","y","_","e","v","e","n","t","s">>
      [] s = "AdminRepoHook" -> <<"a","d","m","i","n",":","r","e","p","o","_","h","o","o","k">>
      [] s = "WriteRepoHook" -> <<"w","r","i","t","e",":","r","e","p","o","_","h","o","o","k">>
      [] s = "ReadRepoHook" -> <<"r","e","a","d",":","r","e","p","o","_","h","o","o","k">>
      [] s = "AdminOrg" -> <<"a","d","m","i","n",":","o","r","g">>
      [] s = "WriteOrg" -> <<"w","r","i","t","e",":","o","r","g">>
      [] s = "ReadOrg" -> <<"r","e","a","d",":","o","r","g">>
      [] s = "AdminPublicKey" -> <<"a","d","m","i","n",":","p","u","b","l","i","c","_","k","e","y">>
      [] s = "WritePublicKey" -> <<"w","r","i","t","e",":","p","u","b","l","i","c","_","k","e","y">>
      [] s = "ReadPublicKey" -> <<"r","e","a","d",":","p","u","b","l","i","c","_","k","e","y">>
      [] s = "AdminOrgHook" -> <<"a","d","m","i","n",":","o","r","g","_","h","o","o","k">>
      [] s = "Gist" -> <<"g","i","s","t">>
      [] s = "Notifications" -> <<"n","o","t","i","f","i","c","a","t","i","o","n","s">>
      [] s = "User" -> <<"u","s","e","r">>
      [] s = "UserEmail" -> <<"u","s","e","r",":","e","m","a","i","l">>
      [] s = "ReadUser" -> <<"r","e","a","d",":","u","s","e","r">>
      [] s = "UserFollow" -> <<"u","s","e","r",":","f","o","l","l","o","w">>
      [] s = "DeleteRepo" -> <<"d","e","l","e","t","e","_","r","e","p","o">>
      [] s = "WriteDiscussion" -> <<"w","r","i","t","e",":","d","i","s","c","u","s","s","i","o","n">>
      [] s = "ReadDiscussion" -> <<"r","e","a","d",":","d","i","s","c","u","s","s","i","o","n">>
      [] s = "WritePackages" -> <<"w","r","i","t","e",":","p","a","c","k","a","g","e","s">>
      [] s = "ReadPackages" -> <<"r","e","a","d",":","p","a","c","k","a","g","e","s">>
      [] s = "DeletePackages" -> <<"d","e","l","e","t","e",":","p","a","c","k","a","g","e","s">>
      [] s = "AdminGpgKey" -> <<"a","d","m","i","n",":","g","p","g","_","k","e","y">>
      [] s = "WriteGpgKey" -> <<"w","r","i","t","e",":","g","p","g","_","k","e","y">>
      [] s = "ReadGpgKey" -> <<"r","e","a","d",":","g","p","g","_","k","e","y">>
      [] s = "Workflow" -> <<"w","o","r","k","f","l","o","w">>


(* ------------------------- string operations --------------------------- *)

Quote == "\""

\* str::replace(from, to) for a one-character pattern.
RECURSIVE Replace(_, _, _)
Replace(str, from, to) ==
    IF str = <<>> THEN <<>>
    ELSE (IF Head(str) = from THEN to ELSE <<Head(str)>>)
             \o Replace(Tail(str), from, to)

\* [String]::join(sep)
RECURSIVE Join(_, _)
Join(strs, sep) ==
    IF strs = <<>> THEN <<>>
    ELSE IF Len(strs) = 1 THEN strs[1]
    ELSE strs[1] \o sep \o Join(Tail(strs), sep)

\* Serialization with ReadOrg carrying WriteOrg's rename attribute.
SerializeScopeDup(s) ==
    <<Quote>> \o RenameAttr(IF s = "ReadOrg" THEN "WriteOrg" ELSE s) \o <<Quote>>

\* serde_json::to_string(&scope): a unit variant is written as the JSON
\* string of its renamed name.
SerializeScope(s) == <<Quote>> \o RenameAttr(s) \o <<Quote>>

\* impl fmt::Display for Scope: the JSON string with the quotes removed.
ScopeToString(s) == Replace(SerializeScope(s), Quote, <<>>)

\* #[derive(Deserialize)]: a JSON string is matched against the variants'
\* renamed names in declaration order; anything else is an error.
UnknownVariant == "UnknownVariant"

DeserializeScope(json) ==
    IF Len(json) < 2 \/ json[1] # Quote \/ json[Len(json)] # Quote
    THEN UnknownVariant
    ELSE LET name == SubSeq(json, 2, Len(json) - 1)
             hits == {i \in 1..Len(Catalog) : RenameAttr(Catalog[i]) = name}
         IN  IF hits = {} THEN UnknownVariant
             ELSE Catalog[CHOOSE i \in hits : \A j \in hits : i <= j]

(* ------------------------- authorization URL --------------------------- *)

UrlHead ==
    <<"h","t","t","p","s",":","/","/","g","i","t","h","u","b",".","c","o","m","/","l","o","g","i","n","/","o","a","u","t","h","/","a","u","t","h","o","r","i","z","e","?","c","l","i","e","n","t","_","i","d","=">>

\* A redirect_uri naming another port than the listener's.
UrlMidOtherPort ==
    <<"&","r","e","d","i","r","e","c","t","_","u","r","i","=","h","t","t","p",":","/","/","l","o","c","a","l","h","o","s","t",":","8","0","8","0","/","&","s","c","o","p","e","=">>

UrlMid ==
    <<"&","r","e","d","i","r","e","c","t","_","u","r","i","=","h","t","t","p",":","/","/","l","o","c","a","l","h","o","s","t",":","4","5","6","7","/","&","s","c","o","p","e","=">>

\* Form encoding's separator, which GitHub's authorize URL must not get.
ScopeSeparatorPlus == <<"+">>

\* .join("%20")
ScopeSeparator == <<"%","2","0">>

\* The argument of opener::open: format!(...) over client_id and the
\* selected scopes' to_string() joined by "%20".
AuthorizeUrl(id, scs) ==
    UrlHead \o id \o UrlMid
        \o Join([i \in 1..Len(scs) |-> ScopeToString(scs[i])], ScopeSeparator)

\* The address the listener binds: ([127, 0, 0, 1], 4567).
BindPort == 4567

(* ------------------------------- state --------------------------------- *)

VARIABLES
    orchPc,     \* where create()/main() stands
    result,     \* how create() ended: "none", "Ok", "Err", "Panic"
    exitCode,   \* the process's exit code, NoExit while it runs
    client_id,  \* App.client_id
    scopes,     \* the selected scopes, in the order pushed
    opened,     \* the URL handed to opener::open, NoUrl before the call
    server,     \* the hyper server: "unbound", "listening", "bind_failed",
                \* "terminated" (its future resolved), "dropped"
    tail,       \* broadcast channel: values sent so far
    rxNext,     \* broadcast channel: values the receiver has passed
    rxAlive,    \* the receiver rx exists
    woke,       \* the select! branch that ended the wait
    reqs,       \* the requests the listener has accepted, in arrival order
    posts,      \* the codes POSTed to the token endpoint, in order
    clipboard,  \* the clipboard's contents as set by this process
    stdout,     \* the lines println! has written
    rt,         \* a scope carried through Serialize / Display / Deserialize
    pr          \* a request URI carried through query_params / query_param

vars ==
    <<orchPc, result, exitCode, client_id, scopes, opened, server, tail,
      rxNext, rxAlive, woke, reqs, posts, clipboard, stdout, rt, pr>>

flowVars ==
    <<orchPc, result, exitCode, server, tail, rxNext, rxAlive, woke, reqs,
      posts, clipboard, stdout>>

NoId == <<"?">>
NoUrl == <<>>
NoExit == -1
NoCode == "NoCode"
NoToken == "NoToken"
NoRt == [scope |-> "none", json |-> <<>>, wire |-> <<>>, parsed |-> "none"]
\* Option<String>
None == <<"None">>
Some(v) == <<"Some", v>>
Unset == <<"unset">>
\* hyper::Request: uri().query() is None or Some(query)
NoQuery == None
NoPr == [query |-> NoQuery, params |-> Unset, name |-> Unset, value |-> Unset]

\* broadcast::channel(1)
Capacity == 1

ClientIds == {<<"a","b","c">>, <<"I","v","1",".","9","f">>}
FaviconPath == "/favicon.ico"
Paths == {FaviconPath, "/"}
Codes == {"XYZ", "ABC"}
Tokens == {"gho_1", "gho_2"}

\* The access_token the provider issues for a code.
TokenFor(code) == IF code = "XYZ" THEN "gho_1" ELSE "gho_2"
ExchangeErrors == {"NetworkError", "MalformedResponse", "ProviderError"}

\* The lines create() prints (println! at lines 286, 307 and 335).
NavigatingLine == "Navigating to GitHub for authorization"
ReceivedLine == "Received response. You can close the browser tab now"
CopiedLine == "Token copied to clipboard"

\* The MultiSelect answer: the ticked indices in ascending order, each
\* pushed as selections[index].
SelectedScopes(checked) ==
    [k \in 1..Cardinality(checked) |->
        Catalog[CHOOSE i \in checked :
                    Cardinality({j \in checked : j < i}) = k - 1]]

Checkable == {i \in 1..Len(Catalog) : i <= MaxChecked}

\* A handler without the favicon arm.
IsFaviconNever(path) == FALSE

\* match req.uri().path() { "/favicon.ico" => ..., _ => ... }
IsFavicon(path) == path = FaviconPath

Request(path, code, pc, resp) ==
    [path |-> path, code |-> code, pc |-> pc, resp |-> resp,
     token |-> NoToken, err |-> "none", signalled |-> FALSE]

\* The process runs: spawned connection tasks are polled.
ProcessAlive == orchPc \in {"select", "returned"}

FlowInit ==
    /\ orchPc = "prompt"
    /\ result = "none"
    /\ exitCode = NoExit
    /\ client_id = NoId
    /\ scopes = <<>>
    /\ opened = NoUrl
    /\ server = "unbound"
    /\ tail = 0
    /\ rxNext = 0
    /\ rxAlive = FALSE
    /\ woke = "none"
    /\ reqs = <<>>
    /\ posts = <<>>
    /\ clipboard = NoToken
    /\ stdout = {}

Init == FlowInit /\ rt = NoRt /\ pr = NoPr

(* --------------------------- create(): steps --------------------------- *)

\* App::prompt and the MultiSelect answer.
Prompt ==
    /\ orchPc = "prompt"
    /\ \E id \in ClientIds, checked \in SUBSET Checkable :
          /\ client_id' = id
          /\ scopes' = SelectedScopes(checked)
    /\ orchPc' = "open"
    /\ UNCHANGED <<result, exitCode, opened, server, tail, rxNext, rxAlive,
                   woke, reqs, posts, clipboard, stdout, rt, pr>>

\* App::prompt(theme)? or interact()? returns Err.
PromptFails ==
    /\ orchPc = "prompt"
    /\ orchPc' = "returned"
    /\ result' = "Err"
    /\ UNCHANGED <<exitCode, client_id, scopes, opened, server, tail, rxNext,
                   rxAlive, woke, reqs, posts, clipboard, stdout, rt, pr>>

\* create() with the listener bound before the browser is opened.
OpenBrowserAfterBind ==
    /\ orchPc = "open"
    /\ stdout' = stdout \cup {NavigatingLine}
    /\ opened' = AuthorizeUrl(client_id, scopes)
    /\ \E ok \in BOOLEAN :
          IF ok THEN orchPc' = "bind" /\ result' = result /\ server' = server
                ELSE orchPc' = "returned" /\ result' = "Err" /\ server' = "dropped"
    /\ UNCHANGED <<exitCode, client_id, scopes, tail, rxNext, rxAlive,
                   woke, reqs, posts, clipboard, rt, pr>>

\* opener::open(format!(...))?
OpenBrowser ==
    /\ orchPc = "open"
    /\ stdout' = stdout \cup {NavigatingLine}
    /\ opened' = AuthorizeUrl(client_id, scopes)
    /\ \E ok \in BOOLEAN :
          IF ok THEN orchPc' = "bind" /\ result' = result
                ELSE orchPc' = "returned" /\ result' = "Err"
    /\ UNCHANGED <<exitCode, client_id, scopes, server, tail, rxNext, rxAlive,
                   woke, reqs, posts, clipboard, rt, pr>>

\* broadcast::channel(1), then hyper::Server::bind(..).serve(..); bind
\* panics when the address cannot be bound.
Bind ==
    /\ orchPc = "bind"
    /\ \E ok \in BOOLEAN :
          IF ok THEN /\ server' = "listening"
                     /\ rxAlive' = TRUE
                     /\ orchPc' = "select"
                     /\ result' = result
                ELSE /\ server' = "bind_failed"
                     /\ rxAlive' = FALSE
                     /\ orchPc' = "returned"
                     /\ result' = "Panic"
    /\ UNCHANGED <<exitCode, client_id, scopes, opened, tail, rxNext, woke,
                   reqs, posts, clipboard, stdout, rt, pr>>

\* A wait on rx.recv() alone.
ReadyBranchesRecvOnly == {b \in {"recv"} : rxNext < tail}

\* The branches of tokio::select! { _ = rx.recv() => {}, _ = server => {} }
\* that are ready: recv() completes (Ok or Lagged) once a value the
\* receiver has not passed was sent; the server future completes when the
\* listener ends.
ReadyBranches ==
    {b \in {"recv"} : rxNext < tail} \cup {b \in {"server"} : server = "terminated"}

\* select! completes with a ready branch; create() returns Ok(()) and
\* drops rx and the server.
Select ==
    /\ orchPc = "select"
    /\ \E b \in ReadyBranches :
          /\ woke' = b
          /\ rxNext' = IF b = "recv"
                       THEN (IF tail - rxNext > Capacity THEN tail - Capacity
                                                         ELSE rxNext + 1)
                       ELSE rxNext
    /\ orchPc' = "returned"
    /\ result' = "Ok"
    /\ rxAlive' = FALSE
    /\ server' = IF server = "listening" THEN "dropped" ELSE server
    /\ UNCHANGED <<exitCode, client_id, scopes, opened, tail, reqs, posts,
                   clipboard, stdout, rt, pr>>

\* A connection task is being polled: its handler resumed after the last
\* await and runs, without yielding, to its response or to a panic.
Polling(i) == reqs[i].pc \in {"clip", "send", "respond"}

\* main(): create(&theme).await? then Ok(()); a panic unwinds out of main.
\* Dropping the runtime blocks until its workers have stopped, which they
\* do after the poll they are in; the tasks still pending are dropped.
MainExit ==
    /\ orchPc = "returned"
    /\ \A i \in DOMAIN reqs : ~Polling(i)
    /\ orchPc' = "exited"
    /\ exitCode' = CASE result = "Ok" -> 0
                     [] result = "Err" -> 1
                     [] OTHER -> 101
    /\ UNCHANGED <<result, client_id, scopes, opened, server, tail, rxNext,
                   rxAlive, woke, reqs, posts, clipboard, stdout, rt, pr>>

(* ------------------------- the callback server ------------------------- *)

\* The server future resolves (the listener ends) while create() waits.
ServerTerminates ==
    /\ orchPc = "select"
    /\ server = "listening"
    /\ server' = "terminated"
    /\ UNCHANGED <<orchPc, result, exitCode, client_id, scopes, opened, tail,
                   rxNext, rxAlive, woke, reqs, posts, clipboard, stdout, rt, pr>>

\* A server that serves one connection at a time.
AcceptingOneAtATime ==
    /\ orchPc = "select"
    /\ server = "listening"
    /\ \A i \in DOMAIN reqs : reqs[i].pc \in {"done", "panicked"}

\* The server future is polled by select! and accepts connections; each
\* connection is served by its own spawned task.
Accepting == orchPc = "select" /\ server = "listening"

\* A request is accepted and its handler runs to its first await: the
\* favicon arm answers at once; the other arm parses the query, unwraps
\* params.get("code") and starts the POST.
Arrive ==
    /\ Accepting
    /\ Len(reqs) < MaxRequests
    /\ \E path \in Paths, code \in Codes \cup {NoCode} :
          IF IsFavicon(path)
          THEN /\ reqs' = Append(reqs, Request(path, code, "done", "Empty200"))
               /\ posts' = posts
               /\ stdout' = stdout
          ELSE IF code = NoCode
          THEN /\ reqs' = Append(reqs, [Request(path, code, "panicked", "none")
                                           EXCEPT !.err = "NoCode"])
               /\ posts' = posts
               /\ stdout' = stdout \cup {ReceivedLine}
          ELSE /\ reqs' = Append(reqs, Request(path, code, "post", "none"))
               /\ posts' = Append(posts, code)
               /\ stdout' = stdout \cup {ReceivedLine}
    /\ UNCHANGED <<orchPc, result, exitCode, client_id, scopes, opened, server,
                   tail, rxNext, rxAlive, woke, clipboard, rt, pr>>

\* .send().await.unwrap()
PostReturns(i) ==
    /\ ProcessAlive
    /\ reqs[i].pc = "post"
    /\ \E ok \in BOOLEAN :
          reqs' = IF ok THEN [reqs EXCEPT ![i].pc = "json"]
                  ELSE [reqs EXCEPT ![i].pc = "panicked",
                                    ![i].err = "NetworkError"]
    /\ UNCHANGED <<orchPc, result, exitCode, client_id, scopes, opened, server,
                   tail, rxNext, rxAlive, woke, posts, clipboard, stdout, rt, pr>>

\* .json().await.unwrap() into AccessTokenResponse { access_token }
JsonReturns(i) ==
    /\ ProcessAlive
    /\ reqs[i].pc = "json"
    /\ \E body \in {TokenFor(reqs[i].code), "MalformedResponse", "ProviderError"} :
          reqs' = IF body \in Tokens
                  THEN [reqs EXCEPT ![i].pc = "clip", ![i].token = body]
                  ELSE [reqs EXCEPT ![i].pc = "panicked", ![i].err = body]
    /\ UNCHANGED <<orchPc, result, exitCode, client_id, scopes, opened, server,
                   tail, rxNext, rxAlive, woke, posts, clipboard, stdout, rt, pr>>

\* A handler that copies the authorization code instead of the token.
SetClipboardCode(i) ==
    /\ ProcessAlive
    /\ reqs[i].pc = "clip"
    /\ clipboard' = reqs[i].code
    /\ stdout' = stdout \cup {CopiedLine}
    /\ reqs' = [reqs EXCEPT ![i].pc = "send"]
    /\ UNCHANGED <<orchPc, result, exitCode, client_id, scopes, opened, server,
                   tail, rxNext, rxAlive, woke, posts, rt, pr>>

\* A handler that reports the copy and signals without having copied.
SetClipboardSkipped(i) ==
    /\ ProcessAlive
    /\ reqs[i].pc = "clip"
    /\ stdout' = stdout \cup {CopiedLine}
    /\ reqs' = [reqs EXCEPT ![i].pc = "send"]
    /\ UNCHANGED <<orchPc, result, exitCode, client_id, scopes, opened, server,
                   tail, rxNext, rxAlive, woke, posts, clipboard, rt, pr>>

\* ClipboardProvider::new().unwrap(); clip.set_contents(access_token).unwrap();
\* println!("Token copied to clipboard")
SetClipboard(i) ==
    /\ ProcessAlive
    /\ reqs[i].pc = "clip"
    /\ \E ok \in BOOLEAN :
          IF ok THEN /\ clipboard' = reqs[i].token
                     /\ stdout' = stdout \cup {CopiedLine}
                     /\ reqs' = [reqs EXCEPT ![i].pc = "send"]
                ELSE /\ clipboard' = clipboard
                     /\ stdout' = stdout
                     /\ reqs' = [reqs EXCEPT ![i].pc = "panicked",
                                             ![i].err = "ClipboardError"]
    /\ UNCHANGED <<orchPc, result, exitCode, client_id, scopes, opened, server,
                   tail, rxNext, rxAlive, woke, posts, rt, pr>>

\* tx.send(()).unwrap(): Err when no receiver is left, else the value is
\* stored (overwriting the oldest one when the channel is full).
SendSignal(i) ==
    /\ ProcessAlive
    /\ reqs[i].pc = "send"
    /\ IF rxAlive
       THEN /\ tail' = tail + 1
            /\ reqs' = [reqs EXCEPT ![i].pc = "respond", ![i].signalled = TRUE]
       ELSE /\ tail' = tail
            /\ reqs' = [reqs EXCEPT ![i].pc = "panicked", ![i].err = "SendError"]
    /\ UNCHANGED <<orchPc, result, exitCode, client_id, scopes, opened, server,
                   rxNext, rxAlive, woke, posts, clipboard, stdout, rt, pr>>

\* Ok(Response 200 "Octopat says can close this browser tab")
Respond(i) ==
    /\ ProcessAlive
    /\ reqs[i].pc = "respond"
    /\ reqs' = [reqs EXCEPT ![i].pc = "done", ![i].resp = "Ok200"]
    /\ UNCHANGED <<orchPc, result, exitCode, client_id, scopes, opened, server,
                   tail, rxNext, rxAlive, woke, posts, clipboard, stdout, rt, pr>>

Handler ==
    \E i \in DOMAIN reqs :
        \/ PostReturns(i)
        \/ JsonReturns(i)
        \/ SetClipboard(i)
        \/ SendSignal(i)
        \/ Respond(i)

Next ==
    \/ Prompt
    \/ PromptFails
    \/ OpenBrowser
    \/ Bind
    \/ Select
    \/ MainExit
    \/ ServerTerminates
    \/ Arrive
    \/ Handler

Spec == Init /\ [][Next]_vars

\* The synchronous tail of a handler runs to its end once resumed.
HandlerSync == \E i \in DOMAIN reqs : SetClipboard(i) \/ SendSignal(i) \/ Respond(i)

\* select! is re-polled when a branch becomes ready, and main returns.
FairSpec ==
    Spec /\ WF_vars(Select) /\ WF_vars(MainExit) /\ WF_vars(HandlerSync)

\* The callback server's state as section 4.3 of the design names it.
ServerState ==
    CASE server = "unbound" -> "Unbound"
      [] server = "bind_failed" -> "Aborted"
      [] tail > 0 -> "Completed"
      [] \E i \in DOMAIN reqs : reqs[i].pc \notin {"done", "panicked"} -> "Handling"
      [] OTHER -> "Listening"

(* ------------------ the URL builder and the catalog alone --------------- *)

ScopeSeqs == UNION {[1..k -> Scopes] : k \in 0..MaxScopes}

\* create() at opener::open, for any client id and any sequence of scopes.
UrlInit ==
    /\ orchPc = "open"
    /\ result = "none"
    /\ exitCode = NoExit
    /\ client_id \in ClientIds
    /\ scopes \in ScopeSeqs
    /\ opened = NoUrl
    /\ server = "unbound"
    /\ tail = 0
    /\ rxNext = 0
    /\ rxAlive = FALSE
    /\ woke = "none"
    /\ reqs = <<>>
    /\ posts = <<>>
    /\ clipboard = NoToken
    /\ stdout = {}
    /\ rt = NoRt
    /\ pr = NoPr

UrlSpec == UrlInit /\ [][OpenBrowser]_vars

\* serde_json::to_string(&scope)
Serialize ==
    /\ rt.scope \in Scopes
    /\ rt.json = <<>>
    /\ rt' = [rt EXCEPT !.json = SerializeScope(rt.scope)]
    /\ UNCHANGED <<flowVars, client_id, scopes, opened, pr>>

\* scope.to_string()
Display ==
    /\ rt.scope \in Scopes
    /\ rt.wire = <<>>
    /\ rt' = [rt EXCEPT !.wire = ScopeToString(rt.scope)]
    /\ UNCHANGED <<flowVars, client_id, scopes, opened, pr>>

\* serde_json::from_str::<Scope>(&json)
Deserialize ==
    /\ rt.json # <<>>
    /\ rt.parsed = "none"
    /\ rt' = [rt EXCEPT !.parsed = DeserializeScope(rt.json)]
    /\ UNCHANGED <<flowVars, client_id, scopes, opened, pr>>

ScopeInit ==
    /\ FlowInit
    /\ pr = NoPr
    /\ \E s \in Scopes : rt = [NoRt EXCEPT !.scope = s]

ScopeNext == Serialize \/ Display \/ Deserialize

ScopeSpec == ScopeInit /\ [][ScopeNext]_vars

(* ---------------------- query parameters (param.rs) --------------------- *)

\* str split at the first occurrence of c: <<before, after>>; the whole
\* string and nothing when c does not occur.
SplitFirst(str, c) ==
    LET hits == {k \in 1..Len(str) : str[k] = c}
    IN  IF hits = {} THEN <<str, <<>>>>
        ELSE LET k == CHOOSE x \in hits : \A y \in hits : x <= y
             IN  <<SubSeq(str, 1, k - 1), SubSeq(str, k + 1, Len(str))>>

\* form_urlencoded's decode: "+" becomes a space, then percent-decoding
\* (the query strings here carry no "%").
Decode(str) == Replace(str, "+", <<" ">>)

\* url::form_urlencoded::parse(input): the pieces between "&", empty pieces
\* skipped, each split at its first "=" into a decoded name and value.
RECURSIVE ParsePairs(_)
ParsePairs(input) ==
    IF input = <<>> THEN <<>>
    ELSE LET sp == SplitFirst(input, "&")
             nv == SplitFirst(sp[1], "=")
         IN  IF sp[1] = <<>> THEN ParsePairs(sp[2])
             ELSE <<[name |-> Decode(nv[1]), value |-> Decode(nv[2])]>>
                      \o ParsePairs(sp[2])

\* A map that keeps the first value inserted under a key.
HashMapInsertKeepFirst(map, k, v) ==
    [x \in DOMAIN map \cup {k} |-> IF x \in DOMAIN map THEN map[x] ELSE v]

\* HashMap::insert, as collect() calls it for each pair in turn.
HashMapInsert(map, k, v) ==
    [x \in DOMAIN map \cup {k} |-> IF x = k THEN v ELSE map[x]]

\* .into_owned().collect::<HashMap<String, String>>()
RECURSIVE Collect(_, _)
Collect(map, pairs) ==
    IF pairs = <<>> THEN map
    ELSE Collect(HashMapInsert(map, pairs[1].name, pairs[1].value), Tail(pairs))

\* Params::query_params for hyper::Request
QueryParams(query) ==
    IF query = NoQuery THEN <<>> ELSE Collect(<<>>, ParsePairs(query[2]))

\* Params::query_param: self.query_params().get(name).map(String::clone)
QueryParam(query, name) ==
    LET m == QueryParams(query)
    IN  IF name \in DOMAIN m THEN Some(m[name]) ELSE None

QueryChars == {"a", "b", "=", "&", "+"}

\* The request URIs: without a query, with every short query over
\* QueryChars, the URI of the tests (baz=boom) and one repeating a name.
Queries ==
    {NoQuery}
        \cup {Some(q) : q \in UNION {[1..k -> QueryChars] : k \in 0..MaxQueryLen}}
        \cup {Some(<<"b","a","z","=","b","o","o","m">>),
              Some(<<"a","=","a","&","a","=","b">>)}

ParamNames ==
    {<<>>, <<"a">>, <<"b">>, <<"a"," ">>, <<"a","b">>, <<"b","a","z">>}

\* req.query_params()
CallQueryParams ==
    /\ pr.params = Unset
    /\ pr' = [pr EXCEPT !.params = <<"map", QueryParams(pr.query)>>]
    /\ UNCHANGED <<flowVars, client_id, scopes, opened, rt>>

\* req.query_param(name)
CallQueryParam ==
    /\ pr.name = Unset
    /\ \E n \in ParamNames :
          pr' = [pr EXCEPT !.name = <<"name", n>>,
                           !.value = QueryParam(pr.query, n)]
    /\ UNCHANGED <<flowVars, client_id, scopes, opened, rt>>

ParamInit ==
    /\ FlowInit
    /\ rt = NoRt
    /\ \E q \in Queries : pr = [NoPr EXCEPT !.query = q]

ParamNext == CallQueryParams \/ CallQueryParam

ParamSpec == ParamInit /\ [][ParamNext]_vars

(* ------------------------------ claims --------------------------------- *)

NonFavicon(i) == reqs[i].path # FaviconPath
Finished(i) == reqs[i].pc \in {"done", "panicked"}

\* C1: a non-favicon request with a code whose token exchange succeeded
\* ends with the completion signal sent, the confirmation page returned and
\* the server Completed.
C1_CodeWithSuccessfulExchangeCompletes ==
    \A i \in DOMAIN reqs :
        (NonFavicon(i) /\ reqs[i].code # NoCode /\ reqs[i].token # NoToken
            /\ Finished(i))
        => (reqs[i].signalled /\ reqs[i].resp = "Ok200"
              /\ ServerState = "Completed")

\* C2: a non-favicon request without a code is answered (an error page),
\* the completion signal is sent and the server is Completed; no token
\* exchange is made for it.
C2_NoCodeCompletesAsConsentDenied ==
    \A i \in DOMAIN reqs :
        (NonFavicon(i) /\ reqs[i].code = NoCode)
        => (reqs[i].pc = "done" /\ reqs[i].resp # "none" /\ reqs[i].signalled
              /\ ServerState = "Completed")

\* C3: when the token exchange of a request fails, the completion signal is
\* still sent and the server is Completed.
C3_ExchangeFailureStillCompletes ==
    \A i \in DOMAIN reqs :
        reqs[i].err \in ExchangeErrors
        => (reqs[i].signalled /\ ServerState = "Completed")

\* C4: once a non-favicon request has been handled, the completion signal
\* has been sent exactly once.
C4_SignalExactlyOnce ==
    (\E i \in DOMAIN reqs : NonFavicon(i) /\ Finished(i)) => tail = 1

\* C5: the token exchange POST is issued at most once in a run.
C5_AtMostOneExchange == Len(posts) <= 1

\* C6: a step that accepts a favicon request answers it with the empty
\* success response and changes nothing else: the server's state, the
\* token exchanges, the clipboard, the channel and create() stay as they
\* were, and the earlier requests are untouched.
C6_FaviconChangesNothing ==
    [][(Len(reqs') = Len(reqs) + 1 /\ reqs'[Len(reqs')].path = FaviconPath)
        => /\ reqs'[Len(reqs')].pc = "done"
           /\ reqs'[Len(reqs')].resp = "Empty200"
           /\ reqs'[Len(reqs')].token = NoToken
           /\ ~reqs'[Len(reqs')].signalled
           /\ SubSeq(reqs', 1, Len(reqs)) = reqs
           /\ ServerState' = ServerState
           /\ UNCHANGED <<orchPc, result, exitCode, server, tail, rxNext,
                          rxAlive, woke, posts, clipboard, opened>>]_vars

\* Two favicon requests (one of them carrying a code) were answered and
\* the server is still Listening.
C6_Witness ==
    /\ Len(reqs) = 2
    /\ \A i \in DOMAIN reqs :
          reqs[i].path = FaviconPath /\ reqs[i].resp = "Empty200"
    /\ reqs[1].code # NoCode
    /\ ServerState = "Listening"
    /\ posts = <<>>
    /\ clipboard = NoToken

\* C7: when the bind fails, the browser was never launched.
C7_BindFailureBeforeBrowser == server = "bind_failed" => opened = NoUrl

\* C8: create() stops waiting once the completion signal was sent or the
\* server's future has resolved, and returns; it stops waiting for no
\* other reason.
C8_WaitEndsOnSignalOrTermination ==
    /\ [](woke = "recv" => tail > 0)
    /\ [](woke = "server" => server = "terminated")
    /\ []((orchPc \in {"returned", "exited"} /\ server # "unbound"
             /\ server # "bind_failed") => (woke # "none" /\ result = "Ok"))
    /\ (orchPc = "select" /\ (tail > rxNext \/ server = "terminated"))
          ~> (orchPc \in {"returned", "exited"} /\ result = "Ok")

\* The listener ended without any completion signal and create() returned.
C8_Witness ==
    /\ orchPc = "returned"
    /\ woke = "server"
    /\ server = "terminated"
    /\ tail = 0

Digits == <<"0","1","2","3","4","5","6","7","8","9">>

RECURSIVE Decimal(_)
Decimal(n) == IF n < 10 THEN <<Digits[n + 1]>>
              ELSE Decimal(n \div 10) \o <<Digits[(n % 10) + 1]>>

RECURSIVE WireJoin(_)
WireJoin(scs) ==
    IF Len(scs) = 0 THEN <<>>
    ELSE IF Len(scs) = 1 THEN RenameAttr(scs[1])
    ELSE WireJoin(SubSeq(scs, 1, Len(scs) - 1))
            \o <<"%","2","0">> \o RenameAttr(scs[Len(scs)])

ExampleUrl ==
    <<"h","t","t","p","s",":","/","/","g","i","t","h","u","b",".","c","o","m","/","l","o","g","i","n","/","o","a","u","t","h","/","a","u","t","h","o","r","i","z","e","?","c","l","i","e","n","t","_","i","d","=","a","b","c","&","r","e","d","i","r","e","c","t","_","u","r","i","=","h","t","t","p",":","/","/","l","o","c","a","l","h","o","s","t",":","4","5","6","7","/","&","s","c","o","p","e","=","a","d","m","i","n",":","o","r","g","%","2","0","a","d","m","i","n",":","r","e","p","o","_","h","o","o","k">>

\* C9: the URL handed to the browser is exactly
\* https://github.com/login/oauth/authorize?client_id={id}&redirect_uri=
\* http://localhost:{port}/&scope={s}, {s} being the scopes' wire names in
\* the order given joined by %20 (never +), and empty for no scopes.
C9_AuthorizationUrlExact ==
    opened # NoUrl =>
        /\ opened =
              <<"h","t","t","p","s",":","/","/","g","i","t","h","u","b",".","c","o","m","/","l","o","g","i","n","/","o","a","u","t","h","/","a","u","t","h","o","r","i","z","e","?","c","l","i","e","n","t","_","i","d","=">>
              \o client_id
              \o <<"&","r","e","d","i","r","e","c","t","_","u","r","i","=","h","t","t","p",":","/","/","l","o","c","a","l","h","o","s","t",":">>
              \o Decimal(BindPort)
              \o <<"/","&","s","c","o","p","e","=">>
              \o WireJoin(scopes)
        /\ \A i \in DOMAIN opened : opened[i] # "+"
        /\ scopes = <<>> =>
              SubSeq(opened, Len(opened) - 6, Len(opened))
                  = <<"&","s","c","o","p","e","=">>
        /\ (client_id = <<"a","b","c">> /\ scopes = <<"AdminOrg", "AdminRepoHook">>)
              => opened = ExampleUrl

\* buildAuthorizationUrl("abc", [AdminOrg, AdminRepoHook], 4567) was built.
C9_Witness ==
    /\ client_id = <<"a","b","c">>
    /\ scopes = <<"AdminOrg", "AdminRepoHook">>
    /\ opened = ExampleUrl

\* C10: deserializing what a scope serializes to gives the scope back, and
\* no other scope of the catalog has its wire string.
C10_ScopeRoundTrip ==
    /\ rt.parsed # "none" => rt.parsed = rt.scope
    /\ rt.wire # <<>> =>
          \A t \in Scopes : ScopeToString(t) = rt.wire => t = rt.scope

\* admin:org_hook was written and read back as AdminOrgHook.
C10_Witness ==
    /\ rt.scope = "AdminOrgHook"
    /\ rt.wire = <<"a","d","m","i","n",":","o","r","g","_","h","o","o","k">>
    /\ rt.parsed = "AdminOrgHook"

\* C11: the clipboard holds a value only when a token exchange of this run
\* succeeded, and then exactly the access_token that exchange returned; a
\* request without code or with a failed exchange has no token, writes
\* nothing, and no token is printed.
C11_ClipboardOnlyExchangedToken ==
    /\ clipboard # NoToken =>
          \E i \in DOMAIN reqs :
              /\ reqs[i].code \in Codes
              /\ \E k \in DOMAIN posts : posts[k] = reqs[i].code
              /\ reqs[i].token = TokenFor(reqs[i].code)
              /\ clipboard = reqs[i].token
              /\ reqs[i].err \in {"none", "SendError"}
              /\ reqs[i].pc \notin {"post", "json", "clip"}
    /\ \A i \in DOMAIN reqs :
          reqs[i].err \in ExchangeErrors \cup {"NoCode"}
              => reqs[i].token = NoToken
    /\ stdout \cap (Tokens \cup Codes) = {}

\* One exchange failed and wrote nothing; another succeeded and its token
\* is on the clipboard.
C11_Witness ==
    /\ Len(reqs) = 2
    /\ reqs[1].err \in ExchangeErrors
    /\ reqs[2].token = "gho_2"
    /\ clipboard = "gho_2"

\* C12: exit code 0 only when a token was obtained; after a bind failure, a
\* browser-open failure, a callback without code or a failed exchange the
\* process does not sit waiting and does not exit with 0.
C12_ExitCodes ==
    /\ exitCode = 0 => \E i \in DOMAIN reqs : reqs[i].token # NoToken
    /\ (server = "bind_failed" \/ (opened # NoUrl /\ result = "Err"))
          => orchPc # "select" /\ exitCode # 0
    /\ (\E i \in DOMAIN reqs : reqs[i].err \in ExchangeErrors \cup {"NoCode"})
          => /\ ~(orchPc = "select" /\ ReadyBranches = {})
             /\ exitCode # 0

\* C13: when opener::open fails, create() has returned the error with the
\* listener never bound, no channel, no request served, no token exchange
\* and the clipboard untouched; the process then exits with 1.
C13_BrowserFailureIsImmediate ==
    (opened # NoUrl /\ result = "Err")
        => /\ orchPc \in {"returned", "exited"}
           /\ server = "unbound"
           /\ ~rxAlive
           /\ tail = 0
           /\ reqs = <<>>
           /\ posts = <<>>
           /\ clipboard = NoToken
           /\ exitCode \in {NoExit, 1}

\* The browser could not be opened and the process has exited.
C13_Witness ==
    /\ opened # NoUrl
    /\ result = "Err"
    /\ orchPc = "exited"
    /\ exitCode = 1
    /\ server = "unbound"

\* C14: when the clipboard fails after a successful exchange, the token is
\* still printed and the completion signal still sent.
C14_ClipboardFailureKeepsToken ==
    \A i \in DOMAIN reqs :
        reqs[i].err = "ClipboardError"
            => (reqs[i].token \in stdout /\ reqs[i].signalled)

\* The pieces of a query string as the positions after which they start:
\* 0 and every "&".
PieceStarts(q) == {0} \cup {k \in 1..Len(q) : q[k] = "&"}
PieceEnd(q, a) ==
    LET later == {k \in (a + 1)..Len(q) : q[k] = "&"}
    IN  IF later = {} THEN Len(q)
        ELSE (CHOOSE k \in later : \A j \in later : k <= j) - 1
Piece(q, a) == SubSeq(q, a + 1, PieceEnd(q, a))
PlusAsSpace(str) == [k \in 1..Len(str) |-> IF str[k] = "+" THEN " " ELSE str[k]]
PieceName(q, a) ==
    LET p  == Piece(q, a)
        eq == {k \in 1..Len(p) : p[k] = "="}
    IN  PlusAsSpace(IF eq = {} THEN p
                    ELSE SubSeq(p, 1, (CHOOSE k \in eq : \A j \in eq : k <= j) - 1))
PieceValue(q, a) ==
    LET p  == Piece(q, a)
        eq == {k \in 1..Len(p) : p[k] = "="}
    IN  PlusAsSpace(IF eq = {} THEN <<>>
                    ELSE SubSeq(p, (CHOOSE k \in eq : \A j \in eq : k <= j) + 1,
                                Len(p)))
\* The starts of the non-empty pieces named n.
Named(q, n) == {a \in PieceStarts(q) : Piece(q, a) # <<>> /\ PieceName(q, a) = n}
LastValue(q, n) ==
    PieceValue(q, CHOOSE a \in Named(q, n) : \A b \in Named(q, n) : b <= a)

\* C15: query_param(name) is the lookup of name in query_params(): the
\* value of the last pair of that name in the query string, None when the
\* name is absent or the URI has no query; query_params() holds exactly
\* the names of the query string.
C15_QueryParamIsLookup ==
    /\ pr.name # Unset =>
          LET n == pr.name[2]
          IN  /\ pr.value = IF pr.query = NoQuery \/ Named(pr.query[2], n) = {}
                            THEN None
                            ELSE Some(LastValue(pr.query[2], n))
              /\ pr.params # Unset =>
                    pr.value = IF n \in DOMAIN pr.params[2]
                               THEN Some(pr.params[2][n]) ELSE None
    /\ pr.params # Unset =>
          LET m == pr.params[2]
              q == IF pr.query = NoQuery THEN <<>> ELSE pr.query[2]
          IN  /\ DOMAIN m = {PieceName(q, a) :
                                a \in {b \in PieceStarts(q) : Piece(q, b) # <<>>}}
              /\ \A n \in DOMAIN m : m[n] = LastValue(q, n)

\* ?a=a&a=b was asked for a: the last pair's value, b, and the map holds it.
C15_Witness ==
    /\ pr.query = Some(<<"a","=","a","&","a","=","b">>)
    /\ pr.name = <<"name", <<"a">>>>
    /\ pr.value = Some(<<"b">>)
    /\ pr.params = <<"map", QueryParams(pr.query)>>
    /\ DOMAIN pr.params[2] = {<<"a">>}

\* C16: tx.send never panics the handler.
C16_SendNeverPanics ==
    \A i \in DOMAIN reqs : reqs[i].err # "SendError"

ExchangeInFlight == \E i \in DOMAIN reqs : reqs[i].pc \in {"post", "json"}

\* A favicon request is accepted and answered at once, the other requests,
\* the exchanges and the clipboard staying as they are.
FaviconAnswered ==
    /\ Arrive
    /\ reqs'[Len(reqs')].path = FaviconPath
    /\ reqs'[Len(reqs')].pc = "done"
    /\ reqs'[Len(reqs')].resp = "Empty200"
    /\ SubSeq(reqs', 1, Len(reqs)) = reqs
    /\ posts' = posts
    /\ clipboard' = clipboard
    /\ tail' = tail

\* C17: while a token exchange is in flight and the listener runs, a
\* favicon request can be answered at once (as long as the run's requests
\* are not used up) without touching the request being exchanged.
C17_FaviconDuringExchange ==
    (ExchangeInFlight /\ orchPc = "select" /\ server = "listening"
        /\ Len(reqs) < MaxRequests)
        => ENABLED FaviconAnswered

\* The favicon probe was answered while the first request's POST is out.
C17_Witness ==
    /\ Len(reqs) = 2
    /\ reqs[1].pc = "post"
    /\ reqs[2].path = FaviconPath
    /\ reqs[2].resp = "Empty200"

\* The first position at which pat occurs in str, 0 when it does not.
IndexOf(str, pat) ==
    LET hits == {k \in 1..(Len(str) - Len(pat) + 1) :
                    SubSeq(str, k, k + Len(pat) - 1) = pat}
    IN  IF hits = {} THEN 0 ELSE CHOOSE k \in hits : \A j \in hits : k <= j

\* The value of the redirect_uri parameter of a URL, up to the next "&".
RedirectUri(url) ==
    LET key  == <<"r","e","d","i","r","e","c","t","_","u","r","i","=">>
        k    == IndexOf(url, key)
        rest == SubSeq(url, k + Len(key), Len(url))
        e    == IndexOf(rest, <<"&">>)
    IN  IF k = 0 THEN <<>>
        ELSE IF e = 0 THEN rest ELSE SubSeq(rest, 1, e - 1)

\* C18: the redirect_uri of the URL given to the browser is
\* http://localhost:{port}/ with the port the listener binds.
C18_RedirectPortIsBindPort ==
    opened # NoUrl =>
        RedirectUri(opened)
            = <<"h","t","t","p",":","/","/","l","o","c","a","l","h","o","s","t",":">>
              \o Decimal(BindPort) \o <<"/">>

\* The browser was sent to the URL and the listener is bound.
C18_Witness ==
    /\ opened # NoUrl
    /\ scopes # <<>>
    /\ server = "listening"

\* C19: a handler exchanges, then sets the clipboard, then signals, then
\* responds; so when create() stopped waiting on the signal, a token had
\* already been given to the clipboard.
C19_ClipboardBeforeSignal ==
    /\ \A i \in DOMAIN reqs :
          /\ reqs[i].token # NoToken
                => \E k \in DOMAIN posts : posts[k] = reqs[i].code
          /\ reqs[i].pc \in {"send", "respond"}
                => (reqs[i].token # NoToken /\ clipboard \in Tokens)
          /\ reqs[i].signalled
                => (reqs[i].token # NoToken /\ clipboard \in Tokens
                      /\ CopiedLine \in stdout)
          /\ reqs[i].resp = "Ok200" => reqs[i].signalled
    /\ tail > 0 => clipboard \in Tokens
    /\ woke = "recv" => clipboard \in Tokens

\* create() returned on the signal while the handler has yet to respond.
C19_Witness ==
    /\ woke = "recv"
    /\ orchPc = "returned"
    /\ Len(reqs) = 1
    /\ reqs[1].pc = "respond"
    /\ clipboard = reqs[1].token

\* C20: a request whose exchange succeeded gets the confirmation response,
\* whatever create() and main do meanwhile.
C20_ConfirmationAlwaysReturned ==
    \A i \in DOMAIN reqs :
        (reqs[i].token # NoToken /\ (Finished(i) \/ orchPc = "exited"))
            => reqs[i].resp = "Ok200"
====
